---- MODULE Spec2Model ----
(***************************************************************************)
(* Process supervision of the Unified Trading Bridge stack.                *)
(*                                                                         *)
(*  - UnifiedBridge.pyw (src/unnamed/part_002): singleton check on port    *)
(*    64000, conditional launch of the MT5 terminal, spawn of main.py,     *)
(*    browser open.                                                        *)
(*  - launch_dashboard.pyw: spawn of main.py, browser open.                *)
(*  - main.py: the supervisor the launchers spawn.  Its code is not part   *)
(*    of the sources; it is modelled from section 4.4 of the               *)
(*    specification (the Sup* definitions).                                *)
(*  - Unified_Trading_Bridge.bat: ordered start of the three services,     *)
(*    wait for a key, taskkill of the three window titles.                 *)
(*  - the IBKR bridge launcher (src/unnamed/part_000) and the Unified      *)
(*    Bridge launcher (src/unnamed/part_001): interpreter check, then the  *)
(*    bridge in the foreground, or UnifiedBridge.pyw in the background.    *)
(*                                                                         *)
(* The specifications share the variables: SpecPy (the Python launchers   *)
(* and main.py), SpecPyRuns (SpecPy with no process ended from outside),   *)
(* SpecPyFair (SpecPy with the scheduling the lock's liveness rests on),   *)
(* SpecBat (runs of Unified_Trading_Bridge.bat), SpecLaunchers (the three  *)
(* batch launchers) and Spec (a machine on which any of them is in use).   *)
(***************************************************************************)
EXTENDS Integers, Sequences, FiniteSets, TLC

(* ---------------------------------------------------------------- bounds *)

\* length of the process list before the first launcher runs
MaxProcs == 1
\* abrupt deaths of the process that has the lock port bound
MaxDeaths == 1
\* service processes that end on their own
MaxExits == 1

(* ------------------------------------------------------ program constants *)

LockPort == 64000
DashboardPort == 8502

\* two instances of UnifiedBridge.pyw are started by the user, and one of
\* launch_dashboard.pyw (instance 0); main.py instance i is the one spawned
\* by launcher i
Launchers == {1, 2}
DashLauncher == 0
Supervisors == {DashLauncher} \cup Launchers

\* image names psutil reports for the processes of the machine
ImageNames == {"terminal64.exe", "terminal.exe", "explorer.exe"}

ExePath == "C:/MT5/terminal64.exe"

\* config.json as json.load sees it: the file state and, when it parses to
\* an object, the object as a function from keys to values
\* ("invalid" stands for every content the try block raises on)
ConfigCases ==
    { [file |-> "missing",  json |-> <<>>, exists |-> {}, exec |-> FALSE],
      [file |-> "invalid",  json |-> <<>>, exists |-> {}, exec |-> FALSE],
      [file |-> "ok", json |-> [other |-> ""], exists |-> {ExePath}, exec |-> TRUE],
      [file |-> "ok", json |-> [mt5 |-> [path |-> ""]], exists |-> {ExePath}, exec |-> TRUE],
      [file |-> "ok", json |-> [mt5 |-> [path |-> ExePath]], exists |-> {}, exec |-> FALSE],
      [file |-> "ok", json |-> [mt5 |-> [path |-> ExePath]], exists |-> {ExePath}, exec |-> FALSE],
      [file |-> "ok", json |-> [mt5 |-> [path |-> ExePath]], exists |-> {ExePath}, exec |-> TRUE] }

(* ------------------------------------------------------------- variables *)

VARIABLES
    port,       \* who has 127.0.0.1:64000 bound: Free or <<kind, instance>>
    plist,      \* the OS process list, as the image names psutil reports
    config,     \* config.json and the file system, one of ConfigCases
    lpc,        \* UnifiedBridge.pyw instance -> position in main()
    bridgeRes,  \* instance -> what is_bridge_running() returned
    probeRes,   \* instance -> what is_mt5_running() returned
    probeSnap,  \* instance -> the process list is_mt5_running() iterated
    launchRes,  \* instance -> what launch_mt5() returned
    depSpawns,  \* instance -> number of MT5 terminals it spawned
    mainSpawns, \* launcher (0 = launch_dashboard.pyw) -> main.py spawns
    browser,    \* launcher -> number of webbrowser.open calls
    dpc,        \* launch_dashboard.pyw: position in main()
    spc,        \* main.py instance -> supervisor state (section 4.4)
    deaths,     \* abrupt deaths so far
    released,   \* the lock port was unbound after a holder stopped or died
    acqAfter,   \* instance -> its singleton check passed after such a release
    dashStarted,\* main.py instance -> it has issued the dashboard's start
    \* Unified_Trading_Bridge.bat
    python,     \* "python --version" succeeds on this machine
    logs,       \* the logs folder exists
    procs,      \* the processes of the machine: [owner, svc, title, image]
    broken,     \* the services whose command cannot run (the spawn fails)
    bpc,        \* run -> position in the script
    bidx,       \* run -> index of the service being started or killed
    attempted,  \* run -> the services whose start it has issued
    spawned,    \* run -> the services whose process it has created
    delayed,    \* run -> the services whose inter-start delay it has taken
    errorlevel, \* run -> %errorlevel% of its last command
    bbrowser,   \* run -> number of times it opened the dashboard URL
    exits,      \* service processes that ended on their own
    bdeaths,    \* runs of the script that were ended from outside
    nokill,     \* run -> its taskkill-by-title commands that matched no process
    \* the IBKR bridge launcher (src/unnamed/part_000) and the Unified Bridge
    \* launcher (src/unnamed/part_001)
    pythonw,    \* "where pythonw" finds the interpreter
    ipc,        \* IBKR bridge launcher: position in the script
    ilevel,     \* IBKR bridge launcher: %errorlevel% of its last command
    upc,        \* Unified Bridge launcher: position in the script
    ulevel      \* Unified Bridge launcher: %errorlevel% of its last command

pyvars == <<port, plist, config, lpc, bridgeRes, probeRes, probeSnap, launchRes,
            depSpawns, mainSpawns, browser, dpc, spc, deaths, released, acqAfter,
            dashStarted>>

batvars == <<python, logs, procs, broken, bpc, bidx, attempted, spawned, delayed,
             errorlevel, bbrowser, exits, bdeaths, nokill>>

othvars == <<pythonw, ipc, ilevel, upc, ulevel>>

vars == <<pyvars, batvars, othvars>>

Free == <<"none", 0>>

(* ------------------------------------------- UnifiedBridge.pyw: functions *)

\* a probe that knows only the 64-bit terminal
RECURSIVE is_mt5_running_64only(_)
is_mt5_running_64only(names) ==
    IF names = <<>> THEN FALSE
    ELSE IF Head(names) = "terminal64.exe" THEN TRUE
    ELSE is_mt5_running_64only(Tail(names))

\* is_mt5_running(): True at the first reported name that is one of the two
\* image names, False when the iteration ends without one
RECURSIVE is_mt5_running(_)
is_mt5_running(names) ==
    IF names = <<>> THEN FALSE
    ELSE IF Head(names) \in {"terminal64.exe", "terminal.exe"} THEN TRUE
    ELSE is_mt5_running(Tail(names))

\* dict.get(key, default)
Get(d, k, default) == IF k \in DOMAIN d THEN d[k] ELSE default

\* launch_mt5() without its try/except: a failing open, json.load or Popen
\* raises out of the function
launch_mt5_uncaught(cfg) ==
    IF cfg.file # "ok"
    THEN [ret |-> FALSE, spawned |-> FALSE, raised |-> TRUE]
    ELSE LET mt5_path == Get(Get(cfg.json, "mt5", <<>>), "path", "")
         IN  IF mt5_path # "" /\ mt5_path \in cfg.exists
             THEN IF cfg.exec
                  THEN [ret |-> TRUE, spawned |-> TRUE, raised |-> FALSE]
                  ELSE [ret |-> FALSE, spawned |-> FALSE, raised |-> TRUE]
             ELSE [ret |-> FALSE, spawned |-> FALSE, raised |-> FALSE]

\* launch_mt5(): [ret, spawned, raised].  Every exception raised inside the
\* try block (open, json.load, Popen) is caught and the function answers False.
launch_mt5(cfg) ==
    IF cfg.file # "ok"
    THEN [ret |-> FALSE, spawned |-> FALSE, raised |-> FALSE]
    ELSE LET mt5_path == Get(Get(cfg.json, "mt5", <<>>), "path", "")
         IN  IF mt5_path # "" /\ mt5_path \in cfg.exists
             THEN IF cfg.exec
                  THEN [ret |-> TRUE, spawned |-> TRUE, raised |-> FALSE]
                  ELSE [ret |-> FALSE, spawned |-> FALSE, raised |-> FALSE]
             ELSE [ret |-> FALSE, spawned |-> FALSE, raised |-> FALSE]

\* main() without the return after the attach branch
AfterCheckFallThrough(running) == "probe"

\* main() with the test on is_bridge_running() inverted
AfterCheckInverted(running) == IF running THEN "probe" ELSE "attach"

\* main(): the branch on is_bridge_running()
AfterCheck(running) == IF running THEN "attach" ELSE "probe"

\* main(): the branch on is_mt5_running()
AfterProbe(found) == IF found THEN "spawn" ELSE "launch"

\* main() without the time.sleep(10) after launch_mt5()
AfterLaunchNoWait(r) == IF r.raised THEN "crashed" ELSE "spawn"

\* main() calling launch_mt5() again until it answers True
AfterLaunchRetry(r) ==
    IF r.raised THEN "crashed" ELSE IF r.ret THEN "sleep10" ELSE "launch"

\* main(): launch_mt5()'s result is dropped; only an escaping exception
\* would end the run
AfterLaunch(r) == IF r.raised THEN "crashed" ELSE "sleep10"

(* --------------------------------------------- UnifiedBridge.pyw: actions *)

\* is_bridge_running(), sock.bind(('127.0.0.1', 64000))
LBind(i) ==
    /\ lpc[i] = "check"
    /\ IF port = Free
       THEN /\ port' = <<"launcher", i>>
            /\ lpc' = [lpc EXCEPT ![i] = "close"]
            /\ UNCHANGED bridgeRes
       ELSE /\ bridgeRes' = [bridgeRes EXCEPT ![i] = "True"]
            /\ lpc' = [lpc EXCEPT ![i] = AfterCheck(TRUE)]
            /\ UNCHANGED port
    /\ UNCHANGED <<plist, config, probeRes, probeSnap, launchRes, depSpawns,
                   mainSpawns, browser, dpc, spc, deaths, released, acqAfter, dashStarted>>
    /\ UNCHANGED <<batvars, othvars>>

\* is_bridge_running(), sock.close() and return False
LClose(i) ==
    /\ lpc[i] = "close"
    /\ port' = Free
    /\ bridgeRes' = [bridgeRes EXCEPT ![i] = "False"]
    /\ lpc' = [lpc EXCEPT ![i] = AfterCheck(FALSE)]
    /\ acqAfter' = [acqAfter EXCEPT ![i] = released]
    /\ UNCHANGED <<plist, config, probeRes, probeSnap, launchRes, depSpawns,
                   mainSpawns, browser, dpc, spc, deaths, released, dashStarted>>
    /\ UNCHANGED <<batvars, othvars>>

\* main(), already running: webbrowser.open and return
LAttach(i) ==
    /\ lpc[i] = "attach"
    /\ browser' = [browser EXCEPT ![i] = @ + 1]
    /\ lpc' = [lpc EXCEPT ![i] = "done"]
    /\ UNCHANGED <<port, plist, config, bridgeRes, probeRes, probeSnap, launchRes,
                   depSpawns, mainSpawns, dpc, spc, deaths, released, acqAfter, dashStarted>>
    /\ UNCHANGED <<batvars, othvars>>

\* main(), if not is_mt5_running()
LProbe(i) ==
    /\ lpc[i] = "probe"
    /\ probeSnap' = [probeSnap EXCEPT ![i] = plist]
    /\ probeRes' = [probeRes EXCEPT ![i] = IF is_mt5_running(plist) THEN "True" ELSE "False"]
    /\ lpc' = [lpc EXCEPT ![i] = AfterProbe(is_mt5_running(plist))]
    /\ UNCHANGED <<port, plist, config, bridgeRes, launchRes, depSpawns,
                   mainSpawns, browser, dpc, spc, deaths, released, acqAfter, dashStarted>>
    /\ UNCHANGED <<batvars, othvars>>

\* main(), launch_mt5()
LLaunch(i) ==
    /\ lpc[i] = "launch"
    /\ LET r == launch_mt5(config)
       IN  /\ launchRes' = [launchRes EXCEPT ![i] = IF r.ret THEN "True" ELSE "False"]
           /\ depSpawns' = [depSpawns EXCEPT ![i] = IF r.spawned THEN @ + 1 ELSE @]
           /\ plist' = IF r.spawned THEN Append(plist, "terminal64.exe") ELSE plist
           /\ lpc' = [lpc EXCEPT ![i] = AfterLaunch(r)]
    /\ UNCHANGED <<port, config, bridgeRes, probeRes, probeSnap,
                   mainSpawns, browser, dpc, spc, deaths, released, acqAfter, dashStarted>>
    /\ UNCHANGED <<batvars, othvars>>

\* main(), time.sleep(10)
LSleep10(i) ==
    /\ lpc[i] = "sleep10"
    /\ lpc' = [lpc EXCEPT ![i] = "spawn"]
    /\ UNCHANGED <<port, plist, config, bridgeRes, probeRes, probeSnap, launchRes,
                   depSpawns, mainSpawns, browser, dpc, spc, deaths, released, acqAfter, dashStarted>>
    /\ UNCHANGED <<batvars, othvars>>

\* main(), subprocess.Popen([python_exe, "main.py"], ...)
LSpawn(i) ==
    /\ lpc[i] = "spawn"
    /\ mainSpawns' = [mainSpawns EXCEPT ![i] = @ + 1]
    /\ spc' = [spc EXCEPT ![i] = "LockCheck"]
    /\ lpc' = [lpc EXCEPT ![i] = "sleep8"]
    /\ UNCHANGED <<port, plist, config, bridgeRes, probeRes, probeSnap, launchRes,
                   depSpawns, browser, dpc, deaths, released, acqAfter, dashStarted>>
    /\ UNCHANGED <<batvars, othvars>>

\* main(), time.sleep(8)
LSleep8(i) ==
    /\ lpc[i] = "sleep8"
    /\ lpc' = [lpc EXCEPT ![i] = "open"]
    /\ UNCHANGED <<port, plist, config, bridgeRes, probeRes, probeSnap, launchRes,
                   depSpawns, mainSpawns, browser, dpc, spc, deaths, released, acqAfter, dashStarted>>
    /\ UNCHANGED <<batvars, othvars>>

\* main(), webbrowser.open("http://localhost:8502")
LOpen(i) ==
    /\ lpc[i] = "open"
    /\ browser' = [browser EXCEPT ![i] = @ + 1]
    /\ lpc' = [lpc EXCEPT ![i] = "done"]
    /\ UNCHANGED <<port, plist, config, bridgeRes, probeRes, probeSnap, launchRes,
                   depSpawns, mainSpawns, dpc, spc, deaths, released, acqAfter, dashStarted>>
    /\ UNCHANGED <<batvars, othvars>>

(* ------------------------------------------------- launch_dashboard.pyw *)

\* main(), subprocess.Popen([python_exe, "main.py"], ...)
DSpawn ==
    /\ dpc = "spawn"
    /\ mainSpawns' = [mainSpawns EXCEPT ![DashLauncher] = @ + 1]
    /\ spc' = [spc EXCEPT ![DashLauncher] = "LockCheck"]
    /\ dpc' = "sleep5"
    /\ UNCHANGED <<port, plist, config, lpc, bridgeRes, probeRes, probeSnap, launchRes,
                   depSpawns, browser, deaths, released, acqAfter, dashStarted>>
    /\ UNCHANGED <<batvars, othvars>>

\* main(), time.sleep(5)
DSleep5 ==
    /\ dpc = "sleep5"
    /\ dpc' = "open"
    /\ UNCHANGED <<port, plist, config, lpc, bridgeRes, probeRes, probeSnap, launchRes,
                   depSpawns, mainSpawns, browser, spc, deaths, released, acqAfter,
                   dashStarted>>
    /\ UNCHANGED <<batvars, othvars>>

\* main(), webbrowser.open("http://localhost:8502")
DOpen ==
    /\ dpc = "open"
    /\ browser' = [browser EXCEPT ![DashLauncher] = @ + 1]
    /\ dpc' = "done"
    /\ UNCHANGED <<port, plist, config, lpc, bridgeRes, probeRes, probeSnap, launchRes,
                   depSpawns, mainSpawns, spc, deaths, released, acqAfter, dashStarted>>
    /\ UNCHANGED <<batvars, othvars>>

(* ------------------------------------- main.py, the supervisor (spec 4.4) *)

SupAlive(s) == spc[s] \in {"LockCheck", "DependencyPhase", "ServicePhase", "Running",
                           "ShuttingDown"}

\* LockCheck: Instance Lock.acquire() binds the reserved port and keeps it
SupLockCheck(s) ==
    /\ spc[s] = "LockCheck"
    /\ IF port = Free
       THEN /\ port' = <<"main", s>>
            /\ spc' = [spc EXCEPT ![s] = "DependencyPhase"]
       ELSE /\ spc' = [spc EXCEPT ![s] = "Attach"]
            /\ UNCHANGED port
    /\ UNCHANGED <<plist, config, lpc, bridgeRes, probeRes, probeSnap, launchRes,
                   depSpawns, mainSpawns, browser, dpc, deaths, released, acqAfter,
                   dashStarted>>
    /\ UNCHANGED <<batvars, othvars>>

\* DependencyPhase: ensureRunning(), whose result is not looked at
SupDependencyPhase(s) ==
    /\ spc[s] = "DependencyPhase"
    /\ plist' = IF ~is_mt5_running(plist) /\ launch_mt5(config).spawned
                THEN Append(plist, "terminal64.exe") ELSE plist
    /\ spc' = [spc EXCEPT ![s] = "ServicePhase"]
    /\ UNCHANGED <<port, config, lpc, bridgeRes, probeRes, probeSnap, launchRes,
                   depSpawns, mainSpawns, browser, dpc, deaths, released, acqAfter,
                   dashStarted>>
    /\ UNCHANGED <<batvars, othvars>>

\* ServicePhase: start() of each ServiceSpec in order, the dashboard last
SupServicePhase(s) ==
    /\ spc[s] = "ServicePhase"
    /\ dashStarted' = [dashStarted EXCEPT ![s] = TRUE]
    /\ spc' = [spc EXCEPT ![s] = "Running"]
    /\ UNCHANGED <<port, plist, config, lpc, bridgeRes, probeRes, probeSnap, launchRes,
                   depSpawns, mainSpawns, browser, dpc, deaths, released, acqAfter>>
    /\ UNCHANGED <<batvars, othvars>>

\* Running: the external stop signal arrives
SupStopSignal(s) ==
    /\ spc[s] = "Running"
    /\ spc' = [spc EXCEPT ![s] = "ShuttingDown"]
    /\ UNCHANGED <<port, plist, config, lpc, bridgeRes, probeRes, probeSnap, launchRes,
                   depSpawns, mainSpawns, browser, dpc, deaths, released, acqAfter,
                   dashStarted>>
    /\ UNCHANGED <<batvars, othvars>>

\* ShuttingDown: stopAll(handles), release of the LockToken, Stopped
SupShutdown(s) ==
    /\ spc[s] = "ShuttingDown"
    /\ port' = Free
    /\ released' = TRUE
    /\ spc' = [spc EXCEPT ![s] = "Stopped"]
    /\ UNCHANGED <<plist, config, lpc, bridgeRes, probeRes, probeSnap, launchRes,
                   depSpawns, mainSpawns, browser, dpc, deaths, acqAfter, dashStarted>>
    /\ UNCHANGED <<batvars, othvars>>

(* ------------------------------------------------------ the operating system *)

\* the supervisor that holds the lock is killed from outside; its socket
\* stays bound until the OS reclaims it
SupDie(s) ==
    /\ SupAlive(s)
    /\ port = <<"main", s>>
    /\ deaths < MaxDeaths
    /\ deaths' = deaths + 1
    /\ spc' = [spc EXCEPT ![s] = "Dead"]
    /\ UNCHANGED <<port, plist, config, lpc, bridgeRes, probeRes, probeSnap, launchRes,
                   depSpawns, mainSpawns, browser, dpc, released, acqAfter, dashStarted>>
    /\ UNCHANGED <<batvars, othvars>>

\* a launcher is killed from outside between its bind and its close
LDie(i) ==
    /\ lpc[i] = "close"
    /\ deaths < MaxDeaths
    /\ deaths' = deaths + 1
    /\ lpc' = [lpc EXCEPT ![i] = "dead"]
    /\ UNCHANGED <<port, plist, config, bridgeRes, probeRes, probeSnap, launchRes,
                   depSpawns, mainSpawns, browser, dpc, spc, released, acqAfter,
                   dashStarted>>
    /\ UNCHANGED <<batvars, othvars>>

\* the holder of the lock port is a process that no longer exists
HolderGone ==
    \/ \E i \in Launchers : port = <<"launcher", i>> /\ lpc[i] \in {"dead", "done", "crashed"}
    \/ \E s \in Supervisors : port = <<"main", s>> /\ spc[s] = "Dead"

\* the OS closes the sockets of a process that has gone
OSReclaim ==
    /\ HolderGone
    /\ port' = Free
    /\ released' = TRUE
    /\ UNCHANGED <<plist, config, lpc, bridgeRes, probeRes, probeSnap, launchRes,
                   depSpawns, mainSpawns, browser, dpc, spc, deaths, acqAfter,
                   dashStarted>>
    /\ UNCHANGED <<batvars, othvars>>

(* ------------------------------------- Unified_Trading_Bridge.bat: data *)

\* two runs of the script
Batches == {1, 2}

Services == {"IBKR", "MT5", "Dash"}

\* the two bridges started in the other order
StartOrderSwapped == <<"MT5", "IBKR", "Dash">>

\* the order of the three "start" commands
StartOrder == <<"IBKR", "MT5", "Dash">>

\* the order of the three "taskkill /FI WINDOWTITLE" commands
KillOrder == <<"IBKR", "MT5", "Dash">>

\* the window title "start" gives each service, as a sequence of words
Title(s) ==
    CASE s = "IBKR" -> <<"IBKR", "Bridge">>
      [] s = "MT5"  -> <<"MT5", "Bridge">>
      [] s = "Dash" -> <<"Dashboard">>

\* the image the service's command runs
Image(s) == IF s = "Dash" THEN "streamlit.exe" ELSE "python.exe"

\* start "<title>" cmd /c "...": the cmd.exe that owns the titled window
Window(b, s) == [owner |-> b, svc |-> s, title |-> Title(s), image |-> "cmd.exe"]

\* the process the window's command line runs, a child of that cmd.exe
Child(b, s) == [owner |-> b, svc |-> s, title |-> <<>>, image |-> Image(s)]

\* the port each service listens on
ServicePort(s) ==
    CASE s = "IBKR" -> 5001
      [] s = "MT5"  -> 80
      [] s = "Dash" -> 8502

\* processes of other programs the machine may be running
Foreign ==
    { [owner |-> 0, svc |-> "none", title |-> <<"IB", "Gateway">>,
       image |-> "ibgateway.exe"],
      [owner |-> 0, svc |-> "none", title |-> <<"Dashboard", "-", "Sales">>,
       image |-> "chrome.exe"] }

\* cmd /c ends, and its window closes, when the command it runs has ended
Reap(P) ==
    {p \in P : p.image = "cmd.exe" =>
                  \E c \in P : c.owner = p.owner /\ c.svc = p.svc /\ c.image # "cmd.exe"}

\* WINDOWTITLE eq <pattern>*: the title begins with the pattern
TitleMatches(title, pat) ==
    /\ Len(title) >= Len(pat)
    /\ SubSeq(title, 1, Len(pat)) = pat

\* a taskkill whose filter is the exact title, without the trailing *
TaskkillTitleExact(P, pat) == {p \in P : p.title # pat}

\* a taskkill that ends one matching process only
TaskkillTitleFirst(P, pat) ==
    IF \E p \in P : TitleMatches(p.title, pat)
    THEN P \ {CHOOSE p \in P : TitleMatches(p.title, pat)}
    ELSE P

\* taskkill /F /FI "WINDOWTITLE eq <pattern>*", without /T: the processes
\* left; the children of a process it ends are not ended with it
TaskkillTitle(P, pat) == {p \in P : ~TitleMatches(p.title, pat)}

\* taskkill /F /IM <image> /T: the processes left
TaskkillImage(P, im) == Reap({p \in P : p.image # im})

\* taskkill /IM: exit code 0 when it ended a process, 128 when the image
\* was not found
TaskkillImageLevel(P, Q) == IF P = Q THEN 128 ELSE 0

\* taskkill /FI: a filter that matches no process is reported as
\* information, with exit code 0
TaskkillFilterLevel(P, Q) == 0

\* the three taskkill commands that stop the services
stopAll(P) ==
    TaskkillTitle(TaskkillTitle(TaskkillTitle(P, Title(KillOrder[1])),
                                Title(KillOrder[2])), Title(KillOrder[3]))

\* services started in the script's own console (start /b) end with it
SurvivorsSameConsole(P, b) == {p \in P : p.owner # b}

\* start "<title>" cmd /c ...: every service runs in a console window of its
\* own, so the processes left when the console of run b goes are all of them
Survivors(P, b) == P

\* a script that gives up when a "start" fails
AfterStartAbort(ok) == IF ok THEN "delay" ELSE "exit"

\* the script after a "start" command: the next line, whatever the outcome
AfterStart(ok) == "delay"

\* a script that leaves the start sequence before the dashboard
LastStartEarly(idx) == idx >= Len(StartOrder) - 1

\* the start sequence ends after the last "start" and its timeout
LastStart(idx) == idx >= Len(StartOrder)

\* the script after a "taskkill" command: the next line, whatever the exit code
AfterKill(level, last) == IF last THEN "done" ELSE "kill"

\* a script that goes on whatever the interpreter check answered
PythonCheckIgnored(level) == TRUE

\* if %errorlevel% neq 0 ( ... pause, exit /b 1 ): the script goes on only
\* when the interpreter check ended with error level 0
PythonCheckPasses(level) == level = 0

(* ---------------------------------- Unified_Trading_Bridge.bat: actions *)

\* python --version, if %errorlevel% neq 0
BCheckPython(b) ==
    /\ bpc[b] = "python"
    /\ errorlevel' = [errorlevel EXCEPT ![b] = IF python THEN 0 ELSE 9009]
    /\ bpc' = [bpc EXCEPT ![b] =
                  IF PythonCheckPasses(errorlevel'[b]) THEN "mkdir" ELSE "pause_err"]
    /\ UNCHANGED <<python, logs, procs, broken, bidx, attempted, spawned, delayed,
                   bbrowser, exits, bdeaths, nokill>>
    /\ UNCHANGED <<pyvars, othvars>>

\* pause, exit /b 1
BExitNoPython(b) ==
    /\ bpc[b] = "pause_err"
    /\ errorlevel' = [errorlevel EXCEPT ![b] = 1]
    /\ bpc' = [bpc EXCEPT ![b] = "exit"]
    /\ UNCHANGED <<python, logs, procs, broken, bidx, attempted, spawned, delayed,
                   bbrowser, exits, bdeaths, nokill>>
    /\ UNCHANGED <<pyvars, othvars>>

\* if not exist "logs" mkdir logs
BMkdir(b) ==
    /\ bpc[b] = "mkdir"
    /\ logs' = TRUE
    /\ bpc' = [bpc EXCEPT ![b] = "cleanup"]
    /\ UNCHANGED <<python, procs, broken, bidx, attempted, spawned, delayed,
                   errorlevel, bbrowser, exits, bdeaths, nokill>>
    /\ UNCHANGED <<pyvars, othvars>>

\* taskkill /F /IM streamlit.exe /T
BCleanup(b) ==
    /\ bpc[b] = "cleanup"
    /\ procs' = TaskkillImage(procs, "streamlit.exe")
    /\ errorlevel' = [errorlevel EXCEPT ![b] = TaskkillImageLevel(procs, procs')]
    /\ bpc' = [bpc EXCEPT ![b] = "timeout1"]
    /\ UNCHANGED <<python, logs, broken, bidx, attempted, spawned, delayed,
                   bbrowser, exits, bdeaths, nokill>>
    /\ UNCHANGED <<pyvars, othvars>>

\* timeout /t 1
BTimeout1(b) ==
    /\ bpc[b] = "timeout1"
    /\ errorlevel' = [errorlevel EXCEPT ![b] = 0]
    /\ bpc' = [bpc EXCEPT ![b] = "gateway"]
    /\ UNCHANGED <<python, logs, procs, broken, bidx, attempted, spawned, delayed,
                   bbrowser, exits, bdeaths, nokill>>
    /\ UNCHANGED <<pyvars, othvars>>

\* tasklist /FI "IMAGENAME eq ibgateway.exe" | find; a warning or an OK line
BGateway(b) ==
    /\ bpc[b] = "gateway"
    /\ errorlevel' = [errorlevel EXCEPT ![b] =
                        IF \E p \in procs : p.image = "ibgateway.exe" THEN 0 ELSE 1]
    /\ bidx' = [bidx EXCEPT ![b] = 1]
    /\ bpc' = [bpc EXCEPT ![b] = "start"]
    /\ UNCHANGED <<python, logs, procs, broken, attempted, spawned, delayed,
                   bbrowser, exits, bdeaths, nokill>>
    /\ UNCHANGED <<pyvars, othvars>>

\* start "<title>" cmd /c "... <command>"
BStart(b) ==
    /\ bpc[b] = "start"
    /\ LET s  == StartOrder[bidx[b]]
           ok == s \notin broken
       IN  /\ attempted' = [attempted EXCEPT ![b] = @ \cup {s}]
           /\ spawned' = [spawned EXCEPT ![b] = IF ok THEN @ \cup {s} ELSE @]
           /\ procs' = IF ok
                       THEN procs \cup {Window(b, s), Child(b, s)}
                       ELSE procs
           /\ bpc' = [bpc EXCEPT ![b] = AfterStart(ok)]
    /\ errorlevel' = [errorlevel EXCEPT ![b] = 0]
    /\ UNCHANGED <<python, logs, broken, bidx, delayed, bbrowser, exits, bdeaths, nokill>>
    /\ UNCHANGED <<pyvars, othvars>>

\* timeout /t 2 (3 after the dashboard)
BDelay(b) ==
    /\ bpc[b] = "delay"
    /\ delayed' = [delayed EXCEPT ![b] = @ \cup {StartOrder[bidx[b]]}]
    /\ errorlevel' = [errorlevel EXCEPT ![b] = 0]
    /\ IF LastStart(bidx[b])
       THEN /\ bidx' = [bidx EXCEPT ![b] = 0]
            /\ bpc' = [bpc EXCEPT ![b] = "pause1"]
       ELSE /\ bidx' = [bidx EXCEPT ![b] = @ + 1]
            /\ bpc' = [bpc EXCEPT ![b] = "start"]
    /\ UNCHANGED <<python, logs, procs, broken, attempted, spawned, bbrowser, exits, bdeaths, nokill>>
    /\ UNCHANGED <<pyvars, othvars>>

\* pause: a key is pressed to open the dashboard
BKeyOpen(b) ==
    /\ bpc[b] = "pause1"
    /\ bpc' = [bpc EXCEPT ![b] = "open"]
    /\ UNCHANGED <<python, logs, procs, broken, bidx, attempted, spawned, delayed,
                   errorlevel, bbrowser, exits, bdeaths, nokill>>
    /\ UNCHANGED <<pyvars, othvars>>

\* start "" "http://localhost:8502"
BOpen(b) ==
    /\ bpc[b] = "open"
    /\ bbrowser' = [bbrowser EXCEPT ![b] = @ + 1]
    /\ errorlevel' = [errorlevel EXCEPT ![b] = 0]
    /\ bpc' = [bpc EXCEPT ![b] = "pause2"]
    /\ UNCHANGED <<python, logs, procs, broken, bidx, attempted, spawned, delayed, exits, bdeaths, nokill>>
    /\ UNCHANGED <<pyvars, othvars>>

\* pause: a key is pressed to stop all services
BKeyStop(b) ==
    /\ bpc[b] = "pause2"
    /\ bidx' = [bidx EXCEPT ![b] = 1]
    /\ bpc' = [bpc EXCEPT ![b] = "kill"]
    /\ UNCHANGED <<python, logs, procs, broken, attempted, spawned, delayed,
                   errorlevel, bbrowser, exits, bdeaths, nokill>>
    /\ UNCHANGED <<pyvars, othvars>>

\* taskkill /F /FI "WINDOWTITLE eq <title>*" >nul 2>&1
BKill(b) ==
    /\ bpc[b] = "kill"
    /\ procs' = TaskkillTitle(procs, Title(KillOrder[bidx[b]]))
    /\ errorlevel' = [errorlevel EXCEPT ![b] = TaskkillFilterLevel(procs, procs')]
    /\ nokill' = [nokill EXCEPT ![b] = IF procs' = procs THEN @ + 1 ELSE @]
    /\ bpc' = [bpc EXCEPT ![b] =
                  AfterKill(TaskkillFilterLevel(procs, procs'), bidx[b] = Len(KillOrder))]
    /\ bidx' = [bidx EXCEPT ![b] = IF @ < Len(KillOrder) THEN @ + 1 ELSE 0]
    /\ UNCHANGED <<python, logs, broken, attempted, spawned, delayed, bbrowser, exits,
                   bdeaths>>
    /\ UNCHANGED <<pyvars, othvars>>

\* the console window of a run is closed, or the run is killed
BDie(b) ==
    /\ bpc[b] \notin {"done", "exit", "dead", "off"}
    /\ bdeaths < MaxDeaths
    /\ bdeaths' = bdeaths + 1
    /\ bpc' = [bpc EXCEPT ![b] = "dead"]
    /\ procs' = Survivors(procs, b)
    /\ UNCHANGED <<python, logs, broken, bidx, attempted, spawned, delayed,
                   errorlevel, bbrowser, exits, nokill>>
    /\ UNCHANGED <<pyvars, othvars>>

\* a service process ends on its own
SvcExit ==
    /\ exits < MaxExits
    /\ \E p \in procs :
          /\ p.owner # 0
          /\ p.image # "cmd.exe"
          /\ procs' = Reap(procs \ {p})
    /\ exits' = exits + 1
    /\ UNCHANGED <<python, logs, broken, bpc, bidx, attempted, spawned, delayed,
                   errorlevel, bbrowser, bdeaths, nokill>>
    /\ UNCHANGED <<pyvars, othvars>>

(* ------------------------- IBKR bridge launcher (src/unnamed/part_000) *)

\* python --version, if %errorlevel% neq 0
ICheckPython ==
    /\ ipc = "python"
    /\ ilevel' = IF python THEN 0 ELSE 9009
    /\ ipc' = IF PythonCheckPasses(ilevel') THEN "mkdir" ELSE "pause_err"
    /\ UNCHANGED <<pythonw, upc, ulevel>>
    /\ UNCHANGED <<pyvars, batvars>>

\* pause, exit /b 1
IExitNoPython ==
    /\ ipc = "pause_err"
    /\ ilevel' = 1
    /\ ipc' = "exit"
    /\ UNCHANGED <<pythonw, upc, ulevel>>
    /\ UNCHANGED <<pyvars, batvars>>

\* if not exist "logs" mkdir logs
IMkdir ==
    /\ ipc = "mkdir"
    /\ logs' = TRUE
    /\ ipc' = "gateway"
    /\ UNCHANGED <<python, procs, broken, bpc, bidx, attempted, spawned, delayed,
                   errorlevel, bbrowser, exits, bdeaths, nokill>>
    /\ UNCHANGED <<pythonw, ilevel, upc, ulevel>>
    /\ UNCHANGED pyvars

\* tasklist /FI "IMAGENAME eq ibgateway.exe" | find; a warning and a pause
\* when the gateway is not found
IGateway ==
    /\ ipc = "gateway"
    /\ ilevel' = IF \E p \in procs : p.image = "ibgateway.exe" THEN 0 ELSE 1
    /\ ipc' = IF ilevel' # 0 THEN "pause_warn" ELSE "run"
    /\ UNCHANGED <<pythonw, upc, ulevel>>
    /\ UNCHANGED <<pyvars, batvars>>

\* pause >nul: a key is pressed to continue anyway
IKeyContinue ==
    /\ ipc = "pause_warn"
    /\ ilevel' = 0
    /\ ipc' = "run"
    /\ UNCHANGED <<pythonw, upc, ulevel>>
    /\ UNCHANGED <<pyvars, batvars>>

\* python src\ibkr\bridge.py, in the script's own console, until the bridge
\* ends; a bridge whose command cannot run ends at once
IRun ==
    /\ ipc = "run"
    /\ ilevel' \in IF "IBKR" \in broken THEN {1} ELSE {0, 1}
    /\ ipc' = "pause_end"
    /\ UNCHANGED <<pythonw, upc, ulevel>>
    /\ UNCHANGED <<pyvars, batvars>>

\* pause: a key is pressed and the script ends
IKeyEnd ==
    /\ ipc = "pause_end"
    /\ ilevel' = 0
    /\ ipc' = "done"
    /\ UNCHANGED <<pythonw, upc, ulevel>>
    /\ UNCHANGED <<pyvars, batvars>>

(* ----------------------- Unified Bridge launcher (src/unnamed/part_001) *)

\* where pythonw, if %ERRORLEVEL% NEQ 0
UWhere ==
    /\ upc = "where"
    /\ ulevel' = IF pythonw THEN 0 ELSE 1
    /\ upc' = IF PythonCheckPasses(ulevel') THEN "start" ELSE "pause_err"
    /\ UNCHANGED <<pythonw, ipc, ilevel>>
    /\ UNCHANGED <<pyvars, batvars>>

\* pause, exit /b 1
UExitNoPython ==
    /\ upc = "pause_err"
    /\ ulevel' = 1
    /\ upc' = "exit"
    /\ UNCHANGED <<pythonw, ipc, ilevel>>
    /\ UNCHANGED <<pyvars, batvars>>

\* start "" pythonw UnifiedBridge.pyw, exit: instance 1 of UnifiedBridge.pyw
\* begins its main()
UStart ==
    /\ upc = "start"
    /\ lpc' = [lpc EXCEPT ![1] = IF @ = "off" THEN "check" ELSE @]
    /\ ulevel' = 0
    /\ upc' = "done"
    /\ UNCHANGED <<port, plist, config, bridgeRes, probeRes, probeSnap, launchRes,
                   depSpawns, mainSpawns, browser, dpc, spc, deaths, released,
                   acqAfter, dashStarted>>
    /\ UNCHANGED <<pythonw, ipc, ilevel>>
    /\ UNCHANGED batvars

(* --------------------------------------------- the supervisor's stages *)

\* the transitions of the state machine of section 4.4
SupervisorEdges ==
    { <<"Idle", "LockCheck">>,
      <<"LockCheck", "Attach">>,
      <<"LockCheck", "DependencyPhase">>,
      <<"DependencyPhase", "ServicePhase">>,
      <<"ServicePhase", "Running">>,
      <<"Running", "ShuttingDown">>,
      <<"ShuttingDown", "Stopped">> }

\* the stage main() of UnifiedBridge.pyw is in at a position: the singleton
\* check, the attach branch, the MT5 probe, launch and sleep, the spawn of
\* main.py with the wait and the browser open that follow it; when main()
\* has returned on the fresh path the stack it started runs on without it.
\* "Gone" is a process ended from outside.
LauncherPhase(pc, res) ==
    CASE pc = "off"                             -> "Idle"
      [] pc \in {"check", "close"}              -> "LockCheck"
      [] pc = "attach"                          -> "Attach"
      [] pc \in {"probe", "launch", "sleep10"}  -> "DependencyPhase"
      [] pc \in {"spawn", "sleep8", "open"}     -> "ServicePhase"
      [] pc = "done"  -> IF res = "True" THEN "Attach" ELSE "Running"
      [] OTHER                                  -> "Gone"

\* the stage a run of Unified_Trading_Bridge.bat is in at a position: the
\* preparations, the IB Gateway check, the three starts, the two waits for
\* a key with the browser open between them, the three taskkills, the end.
\* "Gone" is a run ended from outside, or by exit /b 1 when Python is missing.
BatchPhase(pc) ==
    CASE pc \in {"off", "python", "pause_err", "mkdir", "cleanup", "timeout1"}
                                                -> "Idle"
      [] pc = "gateway"                         -> "DependencyPhase"
      [] pc \in {"start", "delay"}              -> "ServicePhase"
      [] pc \in {"pause1", "open", "pause2"}    -> "Running"
      [] pc = "kill"                            -> "ShuttingDown"
      [] pc = "done"                            -> "Stopped"
      [] OTHER                                  -> "Gone"

\* the stage of main.py
MainPhase(st) ==
    CASE st = "none" -> "Idle"
      [] st = "Dead" -> "Gone"
      [] OTHER       -> st

\* a step from stage p to stage q stays in the stage, follows a transition
\* of the state machine, or is the end of the process from outside
EdgeOK(p, q) == p = q \/ q = "Gone" \/ <<p, q>> \in SupervisorEdges

(* -------------------------------------------------------- specifications *)

OthOff ==
    /\ pythonw = TRUE
    /\ ipc = "off"
    /\ ilevel = 0
    /\ upc = "off"
    /\ ulevel = 0

PyOff ==
    /\ port = Free
    /\ plist = <<>>
    /\ config = CHOOSE c \in ConfigCases : c.file = "missing"
    /\ lpc = [i \in Launchers |-> "off"]
    /\ bridgeRes = [i \in Launchers |-> "none"]
    /\ probeRes = [i \in Launchers |-> "none"]
    /\ probeSnap = [i \in Launchers |-> <<>>]
    /\ launchRes = [i \in Launchers |-> "none"]
    /\ depSpawns = [i \in Launchers |-> 0]
    /\ mainSpawns = [i \in Supervisors |-> 0]
    /\ browser = [i \in Supervisors |-> 0]
    /\ dpc = "off"
    /\ spc = [i \in Supervisors |-> "none"]
    /\ deaths = 0
    /\ released = FALSE
    /\ acqAfter = [i \in Launchers |-> FALSE]
    /\ dashStarted = [i \in Supervisors |-> FALSE]

BatOff ==
    /\ python = TRUE
    /\ logs = FALSE
    /\ procs = {}
    /\ broken = {}
    /\ bpc = [b \in Batches |-> "off"]
    /\ bidx = [b \in Batches |-> 0]
    /\ attempted = [b \in Batches |-> {}]
    /\ spawned = [b \in Batches |-> {}]
    /\ delayed = [b \in Batches |-> {}]
    /\ errorlevel = [b \in Batches |-> 0]
    /\ bbrowser = [b \in Batches |-> 0]
    /\ exits = 0
    /\ bdeaths = 0
    /\ nokill = [b \in Batches |-> 0]

\* the machine before a run of the batch launcher
InitBat ==
    /\ PyOff
    /\ OthOff
    /\ python \in BOOLEAN
    /\ logs \in BOOLEAN
    /\ procs \in SUBSET Foreign
    /\ broken \in SUBSET Services
    /\ bpc = [b \in Batches |-> "python"]
    /\ bidx = [b \in Batches |-> 0]
    /\ attempted = [b \in Batches |-> {}]
    /\ spawned = [b \in Batches |-> {}]
    /\ delayed = [b \in Batches |-> {}]
    /\ errorlevel = [b \in Batches |-> 0]
    /\ bbrowser = [b \in Batches |-> 0]
    /\ exits = 0
    /\ bdeaths = 0
    /\ nokill = [b \in Batches |-> 0]

NextBat ==
    \/ \E b \in Batches : BCheckPython(b)
    \/ \E b \in Batches : BExitNoPython(b)
    \/ \E b \in Batches : BMkdir(b)
    \/ \E b \in Batches : BCleanup(b)
    \/ \E b \in Batches : BTimeout1(b)
    \/ \E b \in Batches : BGateway(b)
    \/ \E b \in Batches : BStart(b)
    \/ \E b \in Batches : BDelay(b)
    \/ \E b \in Batches : BKeyOpen(b)
    \/ \E b \in Batches : BOpen(b)
    \/ \E b \in Batches : BKeyStop(b)
    \/ \E b \in Batches : BKill(b)
    \/ \E b \in Batches : BDie(b)
    \/ SvcExit

SpecBat == InitBat /\ [][NextBat]_vars

\* the machine before the Python launchers are run
InitPy ==
    /\ BatOff
    /\ OthOff
    /\ port = Free
    /\ plist \in UNION {[1..n -> ImageNames] : n \in 0..MaxProcs}
    /\ config \in ConfigCases
    /\ lpc = [i \in Launchers |-> "check"]
    /\ bridgeRes = [i \in Launchers |-> "none"]
    /\ probeRes = [i \in Launchers |-> "none"]
    /\ probeSnap = [i \in Launchers |-> <<>>]
    /\ launchRes = [i \in Launchers |-> "none"]
    /\ depSpawns = [i \in Launchers |-> 0]
    /\ mainSpawns = [i \in Supervisors |-> 0]
    /\ browser = [i \in Supervisors |-> 0]
    /\ dpc = "spawn"
    /\ spc = [i \in Supervisors |-> "none"]
    /\ deaths = 0
    /\ released = FALSE
    /\ acqAfter = [i \in Launchers |-> FALSE]
    /\ dashStarted = [i \in Supervisors |-> FALSE]

NextPy ==
    \/ \E i \in Launchers : LBind(i)
    \/ \E i \in Launchers : LClose(i)
    \/ \E i \in Launchers : LAttach(i)
    \/ \E i \in Launchers : LProbe(i)
    \/ \E i \in Launchers : LLaunch(i)
    \/ \E i \in Launchers : LSleep10(i)
    \/ \E i \in Launchers : LSpawn(i)
    \/ \E i \in Launchers : LSleep8(i)
    \/ \E i \in Launchers : LOpen(i)
    \/ DSpawn
    \/ DSleep5
    \/ DOpen
    \/ \E s \in Supervisors : SupLockCheck(s)
    \/ \E s \in Supervisors : SupDependencyPhase(s)
    \/ \E s \in Supervisors : SupServicePhase(s)
    \/ \E s \in Supervisors : SupStopSignal(s)
    \/ \E s \in Supervisors : SupShutdown(s)
    \/ \E s \in Supervisors : SupDie(s)
    \/ \E i \in Launchers : LDie(i)
    \/ OSReclaim

SpecPy == InitPy /\ [][NextPy]_vars

\* the machine before the two short launchers are run
InitOth ==
    /\ PyOff
    /\ python \in BOOLEAN
    /\ logs \in BOOLEAN
    /\ procs \in SUBSET Foreign
    /\ broken \in SUBSET Services
    /\ bpc = [b \in Batches |-> "off"]
    /\ bidx = [b \in Batches |-> 0]
    /\ attempted = [b \in Batches |-> {}]
    /\ spawned = [b \in Batches |-> {}]
    /\ delayed = [b \in Batches |-> {}]
    /\ errorlevel = [b \in Batches |-> 0]
    /\ bbrowser = [b \in Batches |-> 0]
    /\ exits = 0
    /\ bdeaths = 0
    /\ nokill = [b \in Batches |-> 0]
    /\ pythonw \in BOOLEAN
    /\ ipc = "python"
    /\ ilevel = 0
    /\ upc = "where"
    /\ ulevel = 0

NextOth ==
    \/ ICheckPython
    \/ IExitNoPython
    \/ IMkdir
    \/ IGateway
    \/ IKeyContinue
    \/ IRun
    \/ IKeyEnd
    \/ UWhere
    \/ UExitNoPython
    \/ UStart

\* the Python launchers and main.py when no process is ended from outside
NextPyRuns ==
    \/ \E i \in Launchers : LBind(i)
    \/ \E i \in Launchers : LClose(i)
    \/ \E i \in Launchers : LAttach(i)
    \/ \E i \in Launchers : LProbe(i)
    \/ \E i \in Launchers : LLaunch(i)
    \/ \E i \in Launchers : LSleep10(i)
    \/ \E i \in Launchers : LSpawn(i)
    \/ \E i \in Launchers : LSleep8(i)
    \/ \E i \in Launchers : LOpen(i)
    \/ DSpawn
    \/ DSleep5
    \/ DOpen
    \/ \E s \in Supervisors : SupLockCheck(s)
    \/ \E s \in Supervisors : SupDependencyPhase(s)
    \/ \E s \in Supervisors : SupServicePhase(s)
    \/ \E s \in Supervisors : SupStopSignal(s)
    \/ \E s \in Supervisors : SupShutdown(s)

SpecPyRuns == InitPy /\ [][NextPyRuns]_vars

\* the three batch launchers
SpecLaunchers == (InitBat \/ InitOth) /\ [][NextBat \/ NextOth]_vars

\* any of the launchers may be the one in use
Init == InitPy \/ InitBat \/ InitOth

Next == NextPy \/ NextBat \/ NextOth

Spec == Init /\ [][Next]_vars

\* the lock only: the process list and config.json play no part in it
InitLock ==
    /\ InitPy
    /\ plist = <<>>
    /\ config.file = "missing"

\* a running launcher goes on to its next statement, and the OS closes the
\* sockets of a process that is gone
SpecPyFair ==
    /\ InitLock
    /\ [][NextPy]_vars
    /\ WF_vars(OSReclaim)
    /\ \A i \in Launchers : WF_vars(LClose(i))

(* ------------------------------------------------------------ properties *)

\* the launcher positions between a passed singleton check and its exit
FreshPath == {"probe", "launch", "sleep10", "spawn", "sleep8", "open"}

\* C1: of the launchers that perform the singleton check, only one starts
\* the stack while a lock is outstanding: no launcher spawns main.py while
\* the supervisor spawned by another launcher holds the lock port.
C1_NoSpawnWhileLockOutstanding ==
    [][\A i \in Launchers :
          mainSpawns'[i] > mainSpawns[i]
             => \A s \in Launchers : port # <<"main", s>>]_vars

\* C2: a launcher whose singleton check found the port held never probes
\* for the dependency, never launches it, never spawns main.py, and ends
\* having opened the browser exactly once.
C2_AttachOnly ==
    \A i \in Launchers :
        bridgeRes[i] = "True"
           => /\ lpc[i] \in {"attach", "done", "dead"}
              /\ probeRes[i] = "none"
              /\ launchRes[i] = "none"
              /\ depSpawns[i] = 0
              /\ mainSpawns[i] = 0
              /\ spc[i] = "none"
              /\ browser[i] = IF lpc[i] = "done" THEN 1 ELSE 0

C2_Witness ==
    \E i \in Launchers : bridgeRes[i] = "True" /\ lpc[i] = "done" /\ browser[i] = 1

\* C3: a launcher reaches launch_mt5 only when the process list its probe
\* iterated held no process named terminal64.exe or terminal.exe.
C3_LaunchOnlyIfAbsent ==
    \A i \in Launchers :
        (lpc[i] = "launch" \/ launchRes[i] # "none" \/ depSpawns[i] > 0)
           => /\ probeRes[i] = "False"
              /\ \A k \in 1..Len(probeSnap[i]) :
                    probeSnap[i][k] \notin {"terminal64.exe", "terminal.exe"}

\* one launcher spawned the terminal, and another then found it and went on
\* to the supervisor without launching
C3_Witness ==
    \E i, j \in Launchers :
        /\ depSpawns[i] = 1
        /\ probeRes[j] = "True"
        /\ launchRes[j] = "none"
        /\ depSpawns[j] = 0
        /\ mainSpawns[j] = 1

\* the positions of the script after the start sequence
Started == {"pause1", "open", "pause2", "kill", "done"}

\* C4: a run of the script that leaves the start sequence has issued the
\* start of all three services, whichever of them fail to spawn; exactly the
\* services whose command cannot run have no process (Failed), every other
\* one got its process (Running); no failed start ends the run.
C4_PartialFailureTolerant ==
    \A b \in Batches :
        /\ spawned[b] = attempted[b] \ broken
        /\ bpc[b] \in Started => attempted[b] = Services
        /\ bpc[b] = "exit" => attempted[b] = {}

C4_Witness ==
    \E b \in Batches :
        /\ bpc[b] = "pause1"
        /\ broken = {"MT5"}
        /\ attempted[b] = Services
        /\ spawned[b] = {"IBKR", "Dash"}
        /\ \E p \in procs : p.owner = b /\ p.title = Title("Dash")

C6_LockReacquirable ==
    /\ [][\A i \in Launchers :
            (lpc[i] = "close" /\ lpc'[i] \notin {"close", "dead"})
               => (lpc'[i] = "probe" /\ bridgeRes'[i] = "False")]_vars
    /\ (HolderGone ~> port = Free)
    /\ []<>(port = Free \/ \E s \in Supervisors : SupAlive(s))

\* the lock was released by a supervisor that stopped or died, and a
\* launcher's singleton check passed after that
C6_Witness ==
    /\ released
    /\ \E i \in Launchers : acqAfter[i] /\ bridgeRes[i] = "False"
    /\ \E s \in Supervisors : spc[s] \in {"Stopped", "Dead"}

C8_DeclaredStartOrder ==
    \A b \in Batches :
        /\ "MT5" \in attempted[b]
              => "IBKR" \in (attempted[b] \cap delayed[b])
        /\ "Dash" \in attempted[b]
              => {"IBKR", "MT5"} \subseteq (attempted[b] \cap delayed[b])
        /\ \A s \in delayed[b] : s \in attempted[b]

C8_Witness ==
    \E b \in Batches :
        /\ attempted[b] = Services
        /\ delayed[b] = {"IBKR", "MT5"}
        /\ bpc[b] = "delay"

\* C9: while a launcher is past its singleton check and has not ended, the
\* lock port is bound by it or by the supervisor it spawned.
C9_LockHeldForLifetime ==
    \A i \in Launchers :
        lpc[i] \in FreshPath => port \in {<<"launcher", i>>, <<"main", i>>}

\* C10: no outcome of the dependency check or launch ends a run: a launcher
\* that called launch_mt5 goes on to the sleep and the spawn of main.py, and
\* the batch script ends early only when Python is missing, never because
\* IB Gateway is.
C10_DependencyNonFatal ==
    /\ \A i \in Launchers :
          /\ lpc[i] # "crashed"
          /\ launchRes[i] # "none"
                => /\ lpc[i] \in {"sleep10", "spawn", "sleep8", "open", "done", "dead"}
                   /\ lpc[i] \in {"sleep8", "open", "done"}
                         => (mainSpawns[i] = 1 /\ spc[i] # "none")
    /\ \A b \in Batches : bpc[b] = "exit" => (~python /\ attempted[b] = {})

\* launch_mt5 failed (config.json names a path that does not exist) and the
\* launcher still spawned the supervisor
C10_Witness ==
    \E i \in Launchers :
        /\ launchRes[i] = "False"
        /\ config.file = "ok"
        /\ config.exists = {}
        /\ mainSpawns[i] = 1
        /\ lpc[i] = "done"

\* C11: every supervisor (main() of UnifiedBridge.pyw, a run of
\* Unified_Trading_Bridge.bat, main.py) moves between stages only along
\* Idle -> LockCheck -> (Attach | DependencyPhase) -> ServicePhase -> Running
\* -> ShuttingDown -> Stopped: no stage is skipped or entered again, nothing
\* follows Attach or Stopped, and ShuttingDown is entered only from Running.
C11_SupervisorTransitions ==
    [][/\ \A i \in Launchers :
             EdgeOK(LauncherPhase(lpc[i], bridgeRes[i]),
                    LauncherPhase(lpc'[i], bridgeRes'[i]))
       /\ \A b \in Batches : EdgeOK(BatchPhase(bpc[b]), BatchPhase(bpc'[b]))
       /\ \A s \in Supervisors : EdgeOK(MainPhase(spc[s]), MainPhase(spc'[s]))]_vars

\* C12: a launcher that found the dependency absent calls launch_mt5 and
\* completes time.sleep(10) before it spawns main.py: the spawn position is
\* reached after a launch only from the completed sleep, main.py is spawned
\* only from the spawn position, and no main.py of this run exists while the
\* launch or the sleep is still ahead.
C12_LaunchAndWaitBeforeSpawn ==
    /\ [][\A i \in Launchers :
            /\ (launchRes'[i] # "none" /\ lpc'[i] = "spawn" /\ lpc[i] # "spawn")
                  => lpc[i] = "sleep10"
            /\ mainSpawns'[i] > mainSpawns[i] => lpc[i] = "spawn"]_vars
    /\ [](\A i \in Launchers :
            /\ lpc[i] \in {"probe", "launch", "sleep10"}
                  => (mainSpawns[i] = 0 /\ spc[i] = "none")
            /\ (probeRes[i] = "False" /\ mainSpawns[i] > 0) => launchRes[i] # "none")

\* the terminal was absent, the launcher started it, slept and then spawned
\* main.py
C12_Witness ==
    \E i \in Launchers :
        /\ probeRes[i] = "False"
        /\ launchRes[i] = "True"
        /\ depSpawns[i] = 1
        /\ mainSpawns[i] = 1
        /\ lpc[i] = "sleep8"

\* C13: a run of the script that has reached its end after the stop key
\* (Stopped) has issued its three taskkills and no process of a service it
\* started is still running; a main.py that has reached Stopped no longer
\* has the lock port bound.
C13_StoppedMeansAllStopped ==
    /\ \A b \in Batches :
          bpc[b] = "done" => /\ bidx[b] = 0
                             /\ \A p \in procs : p.owner # b
    /\ \A s \in Supervisors : spc[s] = "Stopped" => port # <<"main", s>>

\* C14: the exit status of a run of the script that reached its end tells
\* whether every service started: it is 0 when all three services were
\* spawned, and not 0 when some service failed to start.
C14_ExitStatusReflectsStartup ==
    \A b \in Batches :
        bpc[b] = "done" => (errorlevel[b] = 0 <=> spawned[b] = Services)

\* run a executes one of its taskkill commands in this step
KillStep(a) ==
    \/ bpc[a] = "cleanup" /\ bpc'[a] = "timeout1"
    \/ bpc[a] = "kill" /\ bidx'[a] # bidx[a]

\* C15 as stated: once a run has been ended from outside, nothing in the
\* system terminates the services it had started (a service that ends on
\* its own is not counted).
C15_OrphansNeverTerminated ==
    [][\A b \in Batches :
          (bpc[b] = "dead" /\ exits' = exits)
             => \A p \in procs : p.owner = b => p \in procs']_vars

\* C15, amended: the end of a run from outside terminates none of the
\* services it started; a process of a service leaves the process table
\* only by ending on its own, by a stop-by-title taskkill of some run, or by
\* the start-up taskkill of streamlit.exe of another run.
C15_OrphansOnAbruptDeath ==
    /\ [][\A b \in Batches :
            (bpc'[b] = "dead" /\ bpc[b] # "dead") => procs' = procs]_vars
    /\ [][\A p \in procs :
            (p.owner \in Batches /\ p \notin procs')
               => \/ exits' > exits
                  \/ \E a \in Batches : bpc[a] = "kill" /\ KillStep(a)
                  \/ \E a \in Batches \ {p.owner} :
                        bpc[a] = "cleanup" /\ KillStep(a)]_vars

\* a run was ended from outside after it had started all three services,
\* and all of their processes are running
C15_Witness ==
    \E b \in Batches :
        /\ bpc[b] = "dead"
        /\ spawned[b] = Services
        /\ \A s \in Services : {Window(b, s), Child(b, s)} \subseteq procs

\* C16: a stop-by-title taskkill of a run leaves no process whose window
\* title begins with the pattern, whoever started it: the windows of the
\* other run of the script and the windows of unrelated programs included;
\* and the start-up taskkill leaves no streamlit.exe, whoever started it.
C16_StopAllByPattern ==
    [][\A b \in Batches :
          /\ (bpc[b] = "kill" /\ KillStep(b))
                => \A p \in procs :
                      TitleMatches(p.title, Title(KillOrder[bidx[b]])) => p \notin procs'
          /\ (bpc[b] = "cleanup" /\ KillStep(b))
                => \A p \in procs : p.image = "streamlit.exe" => p \notin procs']_vars

\* run b has stopped and run a has not: the browser window of another
\* program titled "Dashboard - Sales" is gone, and so is the IBKR Bridge
\* window that run a had opened, though no service has ended on its own
C16_Witness ==
    \E a, b \in Batches :
        /\ a # b
        /\ bpc[b] = "done"
        /\ bpc[a] \in {"pause1", "open", "pause2"}
        /\ "IBKR" \in spawned[a]
        /\ exits = 0
        /\ Window(a, "IBKR") \notin procs
        /\ Child(a, "IBKR") \in procs
        /\ \A p \in procs : p.image # "chrome.exe"

\* how far main() of a Python launcher has come
LauncherRank(pc) ==
    CASE pc = "off"     -> 0
      [] pc = "check"   -> 1
      [] pc = "close"   -> 2
      [] pc = "attach"  -> 3
      [] pc = "probe"   -> 3
      [] pc = "launch"  -> 4
      [] pc = "sleep10" -> 5
      [] pc = "spawn"   -> 6
      [] pc = "sleep5"  -> 7
      [] pc = "sleep8"  -> 7
      [] pc = "open"    -> 8
      [] OTHER          -> 9

\* what a run of UnifiedBridge.pyw has done so far
LauncherState(i) ==
    <<lpc[i], bridgeRes[i], probeRes[i], launchRes[i], depSpawns[i], mainSpawns[i],
      browser[i]>>

\* the next statement of main() of UnifiedBridge.pyw instance i
LStep(i) ==
    \/ LBind(i) \/ LClose(i) \/ LAttach(i) \/ LProbe(i) \/ LLaunch(i)
    \/ LSleep10(i) \/ LSpawn(i) \/ LSleep8(i) \/ LOpen(i)

\* the next statement of main() of launch_dashboard.pyw
DStep == DSpawn \/ DSleep5 \/ DOpen

\* C17: every run of main() of a Python launcher terminates (each of its
\* steps takes it further through main(), and while it has not returned its
\* next statement can be executed), it never raises, and when it has
\* returned it has opened the browser exactly once; on the fresh-start path
\* it has then spawned main.py exactly once and the terminal at most once,
\* on the already-running path it has spawned nothing.
C17_LauncherRunsOnce ==
    /\ [][/\ \A i \in Launchers :
                LauncherState(i)' # LauncherState(i)
                   => LauncherRank(lpc'[i]) > LauncherRank(lpc[i])
          /\ <<dpc, mainSpawns[DashLauncher], browser[DashLauncher]>>'
                   # <<dpc, mainSpawns[DashLauncher], browser[DashLauncher]>>
                => LauncherRank(dpc') > LauncherRank(dpc)]_vars
    /\ [](/\ \A i \in Launchers :
                lpc[i] \notin {"off", "done", "dead"} => ENABLED LStep(i)
          /\ dpc \notin {"off", "done"} => ENABLED DStep)
    /\ [](\A i \in Launchers :
            /\ lpc[i] # "crashed"
            /\ browser[i] <= 1 /\ mainSpawns[i] <= 1 /\ depSpawns[i] <= 1
            /\ lpc[i] = "done"
                  => /\ browser[i] = 1
                     /\ bridgeRes[i] = "False" => mainSpawns[i] = 1
                     /\ bridgeRes[i] = "True" => (mainSpawns[i] = 0 /\ depSpawns[i] = 0))
    /\ [](/\ browser[DashLauncher] <= 1 /\ mainSpawns[DashLauncher] <= 1
          /\ dpc = "done" => (browser[DashLauncher] = 1 /\ mainSpawns[DashLauncher] = 1))

\* all three launchers have returned: one run of UnifiedBridge.pyw on the
\* already-running path, the other on the fresh-start path after it started
\* the terminal
C17_Witness ==
    /\ dpc = "done"
    /\ \E i, j \in Launchers :
          /\ lpc[i] = "done" /\ bridgeRes[i] = "True" /\ browser[i] = 1
          /\ lpc[j] = "done" /\ bridgeRes[j] = "False" /\ browser[j] = 1
          /\ mainSpawns[j] = 1 /\ depSpawns[j] = 1

\* C18: on a machine where the interpreter check fails, each batch launcher
\* ends with exit code 1 and has done nothing else: no process was ended,
\* the logs folder was not created, the IB Gateway check was not reached,
\* no service and no UnifiedBridge.pyw was started.
C18_NoPythonNoAction ==
    /\ [](~python =>
            /\ \A b \in Batches :
                  /\ bpc[b] \in {"off", "python", "pause_err", "exit", "dead"}
                  /\ attempted[b] = {}
                  /\ bpc[b] = "exit" => errorlevel[b] = 1
            /\ ipc \in {"off", "python", "pause_err", "exit"}
            /\ ipc = "exit" => ilevel = 1)
    /\ [](~pythonw =>
            /\ upc \in {"off", "where", "pause_err", "exit"}
            /\ upc = "exit" => ulevel = 1
            /\ \A i \in Launchers : lpc[i] = "off")
    /\ [][~python => (procs' = procs /\ logs' = logs)]_vars

\* neither python nor pythonw is found: the IBKR bridge launcher and the
\* Unified Bridge launcher have both ended with exit code 1, the processes
\* of the machine are all there and there is no logs folder
C18_Witness ==
    /\ ~python
    /\ ~pythonw
    /\ ipc = "exit" /\ ilevel = 1
    /\ upc = "exit" /\ ulevel = 1
    /\ procs = Foreign
    /\ ~logs

\* the dashboard processes the script started that are alive
Dashboards == {p \in procs : p.owner \in Batches /\ p.image = "streamlit.exe"}

\* C19: once every run of the script has completed its start-up steps, at
\* most one dashboard (streamlit) process started by the script is alive,
\* whether the runs followed each other or overlapped.
C19_AtMostOneDashboard ==
    (\A b \in Batches : bpc[b] \in Started) => Cardinality(Dashboards) <= 1

====
